---- MODULE Spec2Model ----
(***************************************************************************)
(* BudgetEase: the request handlers of src/main.py over the three tables   *)
(* users, transactions and budgets (SQLAlchemy ORM on a SQLite file).      *)
(*                                                                         *)
(* The handlers are plain def functions, which FastAPI runs in a thread    *)
(* pool, each with a session of its own, and the sqlite3 driver opens no   *)
(* transaction for a SELECT.  So a request is atomic only statement by     *)
(* statement: a SELECT is one step, a commit (the flush with its INSERT,   *)
(* UPDATE or DELETE statements, then COMMIT) is one step, and the steps of *)
(* other requests may fall between two steps of a request.  The commit of  *)
(* a delete first loads the user's transactions and budgets, one SELECT    *)
(* each and a step each, before its write transaction.  The action         *)
(* named after a handler is the arrival of a request and its first         *)
(* statement; the actions named handler_step are the later statements.     *)
(* inflight is the bag of the requests between two steps, each with the    *)
(* values its thread holds: the arguments and the row its session loaded.  *)
(*                                                                         *)
(* The variable last holds the HTTP response of the latest answer:         *)
(* status 200, 404 (HTTPException) or 500 (an exception the handler does   *)
(* not catch, named in the body).  issued and gone are history variables:  *)
(* the ids the users table has ever held, and the ids whose delete_user    *)
(* has answered 200 since the last insert of a user.                       *)
(*                                                                         *)
(* Amounts are Float columns; the model takes whole numbers for them and   *)
(* keeps a quotient as a fraction in lowest terms.  No handler of          *)
(* src/main.py inserts a transaction or a budget, so their rows are those  *)
(* the database file holds when the application starts.                    *)
(***************************************************************************)
EXTENDS Integers, Sequences, FiniteSets, Bags, TLC

VARIABLES users, transactions, budgets, inflight, last, issued, gone

vars == <<users, transactions, budgets, inflight, last, issued, gone>>
store == <<users, transactions, budgets>>

(* ------------------------------ bounds -------------------------------- *)
MaxUserId == 2
MaxTx == 3
MaxBudgets == 1
MaxAmount == 2
MaxInFlight == 2
MaxBudgetTx == 2
MaxExtendBudgets == 2

(* ------------------------------ values -------------------------------- *)
\* A nullable column / a nullable scalar: <<>> is NULL (None), <<v>> is v.
None == <<>>
Some(v) == <<v>>

Names == {"n1"}
EmailSeq == <<"e1", "e2", "e3", "e4">>
Emails == {"e1", "e2"}
Categories == {"A", "B"}
Descriptions == {"d"}
BudgetNames == {"b"}

\* datetime: year, month, day and time of day (t stands for hour..microsecond)
DateTime(y, m, d, t) == [y |-> y, m |-> m, d |-> d, t |-> t]
TxDates == {DateTime(2024, 1, 1, 0), DateTime(2024, 1, 20, 1), DateTime(2024, 2, 1, 0)}
Nows == {DateTime(2024, 1, 1, 0), DateTime(2024, 1, 15, 1),
         DateTime(2024, 2, 29, 1), DateTime(2023, 12, 31, 1)}
StartDates == {DateTime(2024, 1, 1, 0)}
EndDates == {DateTime(2024, 1, 31, 0), DateTime(2023, 12, 1, 0)}
DefaultDate == DateTime(2024, 1, 20, 1)
DefaultEnd == DateTime(2024, 1, 31, 0)
NoDate == DateTime(0, 0, 0, 0)

UserIds == 1..MaxUserId
TxAmounts == 1..MaxAmount
BudgetAmounts == 0..MaxAmount

(* ------------------------------ tables -------------------------------- *)
Ids(rows) == {r.id : r \in rows}
UserRefs(us) == {None} \cup {Some(u.id) : u \in us}

\* the users table of a database that holds k users
InitUserTable(k) == {[id |-> i, name |-> "n1", email |-> EmailSeq[i]] : i \in 1..k}

TransactionRows(i, amounts, dates, categories, refs) ==
    [id : {i}, description : Descriptions, amount : amounts, date : dates,
     category : categories, user_id : refs]

BudgetRows(i, amounts, categories, ends, refs) ==
    [id : {i}, name : BudgetNames, amount : amounts, category : categories,
     start_date : StartDates, end_date : ends, user_id : refs]

\* the tables that hold one row of rows[i] for every id i in 1..n
RECURSIVE Tables(_, _)
Tables(rows, n) ==
    IF n = 0 THEN {{}}
    ELSE {t \cup {r} : t \in Tables(rows, n - 1), r \in rows[n]}

Response(op, arg, status, body) == [op |-> op, arg |-> arg, status |-> status, body |-> body]

(* ------------------------- requests in flight ------------------------- *)
\* A request between two statements: the handler, the statement it runs next,
\* its arguments (id; name and email, or date) and loaded, the row its session
\* holds from its SELECT (None when it holds none).  children are the ids of
\* the transactions and budgets the flush of a delete has loaded for the user.
NoChildren == [transactions |-> {}, budgets |-> {}]

UserRequest(op, pc, id, name, email, loaded) ==
    [op |-> op, pc |-> pc, id |-> id, name |-> name, email |-> email,
     date |-> NoDate, loaded |-> loaded, children |-> NoChildren]

BudgetRequest(op, pc, id, date, loaded) ==
    [op |-> op, pc |-> pc, id |-> id, name |-> "", email |-> "",
     date |-> date, loaded |-> loaded, children |-> NoChildren]

InFlight == BagToSet(inflight)

\* a worker thread takes the request up; the pool holds MaxInFlight threads
Start(r) ==
    /\ BagCardinality(inflight) < MaxInFlight
    /\ inflight' = inflight (+) SetToBag({r})

\* the request goes on to its next statement
Advance(r, r2) == inflight' = (inflight (-) SetToBag({r})) (+) SetToBag({r2})

\* the request is answered
Finish(r) == inflight' = inflight (-) SetToBag({r})

(* ---------------------------- aggregates ------------------------------ *)
RECURSIVE SumAmounts(_)
SumAmounts(rows) ==
    IF rows = {} THEN 0
    ELSE LET r == CHOOSE x \in rows : TRUE IN r.amount + SumAmounts(rows \ {r})

\* db.query(func.sum(col)).filter(...).scalar(): SQL SUM over no rows is NULL
FuncSum(rows) == IF rows = {} THEN None ELSE Some(SumAmounts(rows))

RECURSIVE Gcd(_, _)
Gcd(a, b) == IF b = 0 THEN a ELSE Gcd(b, a % b)

\* the quotient a / b of two numbers (b > 0, a >= 0), as a fraction in lowest terms
Quotient(a, b) == LET g == Gcd(a, b) IN [num |-> a \div g, den |-> b \div g]
Zero == [num |-> 0, den |-> 1]

(* ----------------------------- datetimes ------------------------------ *)
IsLeap(y) == (y % 4 = 0 /\ y % 100 # 0) \/ y % 400 = 0
DaysInMonth(y, m) ==
    IF m = 2 THEN (IF IsLeap(y) THEN 29 ELSE 28)
    ELSE IF m \in {4, 6, 9, 11} THEN 30 ELSE 31

\* dt + timedelta(days=n)
RECURSIVE AddDays(_, _)
AddDays(dt, n) ==
    IF n = 0 THEN dt
    ELSE IF dt.d < DaysInMonth(dt.y, dt.m) THEN AddDays([dt EXCEPT !.d = @ + 1], n - 1)
    ELSE IF dt.m < 12 THEN AddDays([dt EXCEPT !.m = @ + 1, !.d = 1], n - 1)
    ELSE AddDays([dt EXCEPT !.y = @ + 1, !.m = 1, !.d = 1], n - 1)

\* dt.replace(day=1): only the day changes, the time of day is kept
ReplaceDay1(dt) == [dt EXCEPT !.d = 1]

\* a < b on datetimes
Before(a, b) ==
    \/ a.y < b.y
    \/ a.y = b.y /\ a.m < b.m
    \/ a.y = b.y /\ a.m = b.m /\ a.d < b.d
    \/ a.y = b.y /\ a.m = b.m /\ a.d = b.d /\ a.t < b.t


(* --------------------------- user handlers ---------------------------- *)
\* SQLite INTEGER PRIMARY KEY without AUTOINCREMENT: the new rowid is one more
\* than the largest rowid in the table, 1 when the table is empty
NextUserId(us) ==
    IF us = {} THEN 1 ELSE (CHOOSE i \in Ids(us) : \A j \in Ids(us) : j <= i) + 1

\* response_model=UserCreate: the response shows name and email only
UserOut(u) == [name |-> u.name, email |-> u.email]

\* .filter(User.id == user_id).first()
FirstById(rows, id) == IF id \in Ids(rows) THEN Some(CHOOSE r \in rows : r.id = id) ELSE None

\* the unique index on users.email
EmailTaken(us, email, exceptId) == \E u \in us : u.email = email /\ u.id # exceptId

\* the lazy load of a relationship() of the user: SELECT ... WHERE ? = user_id
ChildrenOf(rows, id) == {r.id : r \in {x \in rows : x.user_id = Some(id)}}

\* a Detach that leaves the children as they are
DetachNothing(rows, ids) == rows

\* db.delete(db_user) with relationship() and no delete cascade: the flush
\* de-associates the children it loaded, one UPDATE ... SET user_id = NULL
\* WHERE id = ? for each
Detach(rows, ids) ==
    {IF r.id \in ids THEN [r EXCEPT !.user_id = None] ELSE r : r \in rows}

\* a request answered by the step that took it up
Answer(response) ==
    /\ last' = response
    /\ UNCHANGED <<store, inflight, issued, gone>>

\* db.add, db.commit: the INSERT and its COMMIT; db.refresh is still to come
create_user(name, email) ==
    LET arg == [name |-> name, email |-> email] IN
    IF EmailTaken(users, email, 0)
    THEN Answer(Response("create_user", arg, 500, "IntegrityError"))
    ELSE LET id == NextUserId(users) IN
         /\ id <= MaxUserId
         /\ Start(UserRequest("create_user", "refresh", id, name, email, None))
         /\ users' = users \cup {[id |-> id, name |-> name, email |-> email]}
         /\ issued' = issued \cup {id}
         /\ gone' = {}
         /\ UNCHANGED <<transactions, budgets, last>>

\* db.refresh(db_user): the row is read again by its id, and the response is
\* made of what was read; refresh raises when the row is no longer there
create_user_refresh(r) ==
    LET db_user == FirstById(users, r.id)
        arg == [name |-> r.name, email |-> r.email] IN
    /\ r.op = "create_user"
    /\ r.pc = "refresh"
    /\ last' = IF db_user = None
               THEN Response("create_user", arg, 500, "InvalidRequestError")
               ELSE Response("create_user", arg, 200, UserOut(db_user[1]))
    /\ Finish(r)
    /\ UNCHANGED <<store, issued, gone>>

get_user(user_id) ==
    LET db_user == FirstById(users, user_id) IN
    Answer(IF db_user = None
           THEN Response("get_user", user_id, 404, "User not found")
           ELSE Response("get_user", user_id, 200, UserOut(db_user[1])))

\* the SELECT of update_user; the session holds the row it read
update_user(user_id, name, email) ==
    LET db_user == FirstById(users, user_id)
        arg == [id |-> user_id, name |-> name, email |-> email] IN
    IF db_user = None
    THEN Answer(Response("update_user", arg, 404, "User not found"))
    ELSE /\ Start(UserRequest("update_user", "commit", user_id, name, email,
                              Some(UserOut(db_user[1]))))
         /\ UNCHANGED <<store, last, issued, gone>>

\* setattr and db.commit of update_user: the flush writes the columns whose new
\* value differs from the loaded one, in one UPDATE ... WHERE id = ?; with no
\* such column there is no UPDATE.  An UPDATE that matches no row raises
\* StaleDataError, one that breaks the unique index IntegrityError.
update_user_commit(r) ==
    LET arg == [id |-> r.id, name |-> r.name, email |-> r.email]
        loaded == r.loaded[1]
        db_user == FirstById(users, r.id)
        reload == [r EXCEPT !.pc = "reload", !.loaded = None] IN
    /\ r.op = "update_user"
    /\ r.pc = "commit"
    /\ IF r.name = loaded.name /\ r.email = loaded.email
       THEN /\ Advance(r, reload)
            /\ UNCHANGED <<store, last, issued, gone>>
       ELSE IF db_user = None
       THEN /\ last' = Response("update_user", arg, 500, "StaleDataError")
            /\ Finish(r)
            /\ UNCHANGED <<store, issued, gone>>
       ELSE IF r.email # loaded.email /\ EmailTaken(users, r.email, r.id)
       THEN /\ last' = Response("update_user", arg, 500, "IntegrityError")
            /\ Finish(r)
            /\ UNCHANGED <<store, issued, gone>>
       ELSE /\ users' = (users \ {db_user[1]}) \cup
                  {[db_user[1] EXCEPT
                       !.name = IF r.name # loaded.name THEN r.name ELSE @,
                       !.email = IF r.email # loaded.email THEN r.email ELSE @]}
            /\ Advance(r, reload)
            /\ UNCHANGED <<transactions, budgets, last, issued, gone>>

\* return db_user of update_user: the commit expired the instance, so the
\* response model reads the row again; the load raises when the row is gone
update_user_reload(r) ==
    LET arg == [id |-> r.id, name |-> r.name, email |-> r.email]
        db_user == FirstById(users, r.id) IN
    /\ r.op = "update_user"
    /\ r.pc = "reload"
    /\ last' = IF db_user = None
               THEN Response("update_user", arg, 500, "ObjectDeletedError")
               ELSE Response("update_user", arg, 200, UserOut(db_user[1]))
    /\ Finish(r)
    /\ UNCHANGED <<store, issued, gone>>

\* the SELECT of delete_user
delete_user(user_id) ==
    LET db_user == FirstById(users, user_id) IN
    IF db_user = None
    THEN Answer(Response("delete_user", user_id, 404, "User not found"))
    ELSE /\ Start(UserRequest("delete_user", "transactions", user_id, "", "", None))
         /\ UNCHANGED <<store, last, issued, gone>>

\* db.commit of delete_user, first statement: the flush loads the user's
\* transactions, a SELECT in no transaction
delete_user_transactions(r) ==
    /\ r.op = "delete_user"
    /\ r.pc = "transactions"
    /\ Advance(r, [r EXCEPT !.pc = "budgets",
                            !.children.transactions = ChildrenOf(transactions, r.id)])
    /\ UNCHANGED <<store, last, issued, gone>>

\* db.commit of delete_user, second statement: the flush loads the user's
\* budgets, a SELECT in no transaction
delete_user_budgets(r) ==
    /\ r.op = "delete_user"
    /\ r.pc = "budgets"
    /\ Advance(r, [r EXCEPT !.pc = "write",
                            !.children.budgets = ChildrenOf(budgets, r.id)])
    /\ UNCHANGED <<store, last, issued, gone>>

\* a commit of delete_user that writes nothing
delete_user_commit_nothing(r) ==
    /\ r.op = "delete_user"
    /\ r.pc = "write"
    /\ last' = Response("delete_user", r.id, 200, "User deleted")
    /\ gone' = gone \cup {r.id}
    /\ Finish(r)
    /\ UNCHANGED <<store, issued>>

\* db.commit of delete_user, the write transaction: the flush sets the user_id
\* of the children it loaded to NULL and deletes the row by its id, then
\* COMMIT; a DELETE that matches no row only warns, so the answer is 200 also
\* when the row is already gone
delete_user_commit(r) ==
    /\ r.op = "delete_user"
    /\ r.pc = "write"
    /\ users' = {u \in users : u.id # r.id}
    /\ transactions' = Detach(transactions, r.children.transactions)
    /\ budgets' = Detach(budgets, r.children.budgets)
    /\ last' = Response("delete_user", r.id, 200, "User deleted")
    /\ gone' = gone \cup {r.id}
    /\ Finish(r)
    /\ UNCHANGED issued

(* ------------------------ transaction handlers ------------------------ *)
TotalSpent(txs, user_id) == FuncSum({r \in txs : r.user_id = Some(user_id)})

get_total_spent(user_id) ==
    Answer(Response("get_total_spent", user_id, 200, TotalSpent(transactions, user_id)))

(* -------------------------- budget handlers --------------------------- *)
\* the sum both budget handlers take: same user and same category as the
\* budget the session loaded
BudgetSpent(txs, b) ==
    FuncSum({r \in txs : r.user_id = b.user_id /\ r.category = b.category})

\* return db_budget with no response_model: the commit expired the instance,
\* whose attributes are then not in its __dict__, so the body is an empty object
EmptyObject == "{}"

\* the SELECT of extend_budget
extend_budget(budget_id, new_end_date) ==
    LET db_budget == FirstById(budgets, budget_id)
        arg == [id |-> budget_id, new_end_date |-> new_end_date] IN
    IF db_budget = None
    THEN Answer(Response("extend_budget", arg, 404, "Budget not found"))
    ELSE /\ Start(BudgetRequest("extend_budget", "commit", budget_id, new_end_date,
                                db_budget))
         /\ UNCHANGED <<store, last, issued, gone>>

\* the assignment and db.commit of extend_budget: the flush writes end_date in
\* an UPDATE ... WHERE id = ? when the new value differs from the loaded one,
\* and nothing otherwise
extend_budget_commit(r) ==
    LET arg == [id |-> r.id, new_end_date |-> r.date] IN
    /\ r.op = "extend_budget"
    /\ r.pc = "commit"
    /\ budgets' = {IF b.id = r.id /\ r.date # r.loaded[1].end_date
                   THEN [b EXCEPT !.end_date = r.date] ELSE b : b \in budgets}
    /\ last' = Response("extend_budget", arg, 200, EmptyObject)
    /\ Finish(r)
    /\ UNCHANGED <<users, transactions, issued, gone>>

\* the SELECT of the budget in check_budget_exceeded; building the second query
\* reads db_budget.user_id, which raises when there is no budget
check_budget_exceeded(budget_id) ==
    LET db_budget == FirstById(budgets, budget_id) IN
    IF db_budget = None
    THEN Answer(Response("check_budget_exceeded", budget_id, 500, "AttributeError"))
    ELSE /\ Start(BudgetRequest("check_budget_exceeded", "sum", budget_id, NoDate, db_budget))
         /\ UNCHANGED <<store, last, issued, gone>>

\* the response of check_budget_exceeded for the loaded budget b
BudgetExceeded(b, txs) ==
    LET total_spent == BudgetSpent(txs, b) IN
    IF total_spent = None
    THEN Response("check_budget_exceeded", b.id, 500, "TypeError")
    ELSE Response("check_budget_exceeded", b.id, 200, total_spent[1] > b.amount)

\* the SELECT of the sum in check_budget_exceeded, and the comparison
check_budget_exceeded_sum(r) ==
    /\ r.op = "check_budget_exceeded"
    /\ r.pc = "sum"
    /\ last' = BudgetExceeded(r.loaded[1], transactions)
    /\ Finish(r)
    /\ UNCHANGED <<store, issued, gone>>

\* the SELECT of the budget in get_budget_utilization
get_budget_utilization(budget_id) ==
    LET db_budget == FirstById(budgets, budget_id) IN
    IF db_budget = None
    THEN Answer(Response("get_budget_utilization", budget_id, 500, "AttributeError"))
    ELSE /\ Start(BudgetRequest("get_budget_utilization", "sum", budget_id, NoDate, db_budget))
         /\ UNCHANGED <<store, last, issued, gone>>

\* a get_budget_utilization that divides before it looks at the amount
BudgetUtilizationEager(b, txs) ==
    LET total_spent == BudgetSpent(txs, b) IN
    IF total_spent = None
    THEN Response("get_budget_utilization", b.id, 500, "TypeError")
    ELSE IF b.amount = 0
    THEN Response("get_budget_utilization", b.id, 500, "ZeroDivisionError")
    ELSE IF b.amount > 0
    THEN Response("get_budget_utilization", b.id, 200, Quotient(total_spent[1], b.amount))
    ELSE Response("get_budget_utilization", b.id, 200, Zero)

\* the response of get_budget_utilization for the loaded budget b: the
\* conditional expression tests the amount before it divides
BudgetUtilization(b, txs) ==
    LET total_spent == BudgetSpent(txs, b) IN
    IF b.amount > 0
    THEN IF total_spent = None
         THEN Response("get_budget_utilization", b.id, 500, "TypeError")
         ELSE Response("get_budget_utilization", b.id, 200, Quotient(total_spent[1], b.amount))
    ELSE Response("get_budget_utilization", b.id, 200, Zero)

\* the SELECT of the sum in get_budget_utilization, and the quotient
get_budget_utilization_sum(r) ==
    /\ r.op = "get_budget_utilization"
    /\ r.pc = "sum"
    /\ last' = BudgetUtilization(r.loaded[1], transactions)
    /\ Finish(r)
    /\ UNCHANGED <<store, issued, gone>>

(* ------------------------- analytics handlers ------------------------- *)
get_total_spending_by_category(category) ==
    Answer(Response("get_total_spending_by_category", category, 200,
                    FuncSum({r \in transactions : r.category = category})))

get_transactions_count_by_category(category) ==
    Answer(Response("get_transactions_count_by_category", category, 200,
                    Cardinality({r \in transactions : r.category = category})))

MonthStart(now) == ReplaceDay1(now)
MonthEnd(now) == ReplaceDay1(AddDays(MonthStart(now), 31))

MonthlySpending(txs, user_id, now) ==
    LET start_date == MonthStart(now)
        end_date == MonthEnd(now) IN
    FuncSum({r \in txs : /\ r.user_id = Some(user_id)
                         /\ ~Before(r.date, start_date)
                         /\ Before(r.date, end_date)})

get_monthly_spending_report(user_id, now) ==
    Answer(Response("get_monthly_spending_report", [user_id |-> user_id, now |-> now],
                    200, MonthlySpending(transactions, user_id, now)))

CategoryTotal(txs, c) == SumAmounts({r \in txs : r.category = c})

\* the grouped rows in ascending order of their sums: the rows that come first
HighestRowsAscending(txs) ==
    LET groups == {r.category : r \in txs} IN
    {[category |-> c, total_spent |-> CategoryTotal(txs, c)] :
        c \in {g \in groups : \A h \in groups : CategoryTotal(txs, g) <= CategoryTotal(txs, h)}}

\* group_by(category).order_by(sum desc): the rows that can come first
HighestRows(txs) ==
    LET groups == {r.category : r \in txs} IN
    {[category |-> c, total_spent |-> CategoryTotal(txs, c)] :
        c \in {g \in groups : \A h \in groups : CategoryTotal(txs, h) <= CategoryTotal(txs, g)}}

get_highest_spending_category ==
    \/ /\ HighestRows(transactions) = {}
       /\ Answer(Response("get_highest_spending_category", None, 500, "TypeError"))
    \/ \E result \in HighestRows(transactions) :
          Answer(Response("get_highest_spending_category", None, 200, result))

(* --------------------------- specifications --------------------------- *)
BudgetIds == 1..(MaxBudgets + 1)
ExtendBudgetIds == 1..(MaxExtendBudgets + 1)

NextDelete ==
    \/ \E user_id \in UserIds : delete_user(user_id)
    \/ \E r \in InFlight : delete_user_transactions(r)
    \/ \E r \in InFlight : delete_user_budgets(r)
    \/ \E r \in InFlight : delete_user_commit(r)

NextUsers ==
    \/ \E name \in Names, email \in Emails : create_user(name, email)
    \/ \E r \in InFlight : create_user_refresh(r)
    \/ \E user_id \in UserIds : get_user(user_id)
    \/ \E user_id \in UserIds, name \in Names, email \in Emails : update_user(user_id, name, email)
    \/ \E r \in InFlight : update_user_commit(r)
    \/ \E r \in InFlight : update_user_reload(r)
    \/ NextDelete

NextExtend ==
    \/ \E budget_id \in ExtendBudgetIds, d \in EndDates : extend_budget(budget_id, d)
    \/ \E r \in InFlight : extend_budget_commit(r)

NextBudgets ==
    \/ \E budget_id \in BudgetIds : check_budget_exceeded(budget_id)
    \/ \E r \in InFlight : check_budget_exceeded_sum(r)
    \/ \E budget_id \in BudgetIds : get_budget_utilization(budget_id)
    \/ \E r \in InFlight : get_budget_utilization_sum(r)

NextSpending ==
    \/ \E user_id \in UserIds : get_total_spent(user_id)
    \/ \E user_id \in UserIds, now \in Nows : get_monthly_spending_report(user_id, now)

NextCategories ==
    \/ \E category \in Categories : get_total_spending_by_category(category)
    \/ \E category \in Categories : get_transactions_count_by_category(category)
    \/ get_highest_spending_category

\* The database file outlives the process, so a run starts from whatever the
\* tables hold: up to userMax users, txMax transactions and bMax budgets,
\* every user reference NULL or the id of a user, and no request in flight.
\* The other parameters are the values the columns of the rows are drawn from.
InitDb(txAmounts, txDates, txCategories, bAmounts, bCategories, bEnds, userMax, txMax, bMax) ==
    /\ \E k \in 0..userMax :
          /\ users = InitUserTable(k)
          /\ \E n \in 0..txMax :
                transactions \in Tables([i \in 1..n |-> TransactionRows(
                    i, txAmounts, txDates, txCategories, UserRefs(users))], n)
          /\ \E n \in 0..bMax :
                budgets \in Tables([i \in 1..n |-> BudgetRows(
                    i, bAmounts, bCategories, bEnds, UserRefs(users))], n)
    /\ inflight = EmptyBag
    /\ last = Response("start", None, 200, None)
    /\ issued = Ids(users)
    /\ gone = {}

Init == InitDb(TxAmounts, TxDates, Categories, BudgetAmounts, Categories, EndDates, MaxUserId, MaxTx, MaxBudgets)

Next == NextUsers \/ NextExtend \/ NextBudgets \/ NextSpending \/ NextCategories

Spec == Init /\ [][Next]_vars

\* The handlers in groups, each over the databases that vary the columns its
\* handlers read or write, and each with the handlers that write what the
\* group reads between two statements of a request: the user handlers with one
\* another, over the users table and the user references; extend_budget with
\* itself and with delete_user, over the end dates; the two handlers that sum
\* the spending of a budget with delete_user, which sets the user references
\* of budgets and transactions to NULL.  The spending and the category handlers
\* are one SELECT each and answer from the database as that SELECT finds it, so
\* they run over every database and need no writer beside them.
InitUsers ==
    InitDb({1}, {DefaultDate}, {"A"}, {1}, {"A"}, {DefaultEnd}, MaxUserId, MaxBudgets, MaxBudgets)
SpecUsers == InitUsers /\ [][NextUsers]_vars

InitExtend ==
    InitDb({1}, {DefaultDate}, {"A"}, {1}, {"A"}, EndDates, MaxUserId, MaxBudgets,
           MaxExtendBudgets)
SpecExtend == InitExtend /\ [][NextExtend \/ NextDelete]_vars

InitBudgets ==
    InitDb(TxAmounts, {DefaultDate}, Categories, BudgetAmounts, Categories, {DefaultEnd},
           MaxUserId, MaxBudgetTx, MaxBudgets)
SpecBudgets == InitBudgets /\ [][NextBudgets \/ NextDelete]_vars

InitSpending ==
    InitDb(TxAmounts, TxDates, {"A"}, {1}, {"A"}, {DefaultEnd}, MaxUserId, MaxTx, MaxBudgets)
SpecSpending == InitSpending /\ [][NextSpending]_vars

InitCategories ==
    InitDb(TxAmounts, {DefaultDate}, Categories, {1}, {"A"}, {DefaultEnd}, 0, MaxTx, MaxBudgets)
SpecCategories == InitCategories /\ [][NextCategories]_vars

(* ------------------------------ claims -------------------------------- *)
\* The steps of a request as a pair of states shows them: a request answered by
\* the step that took it up leaves inflight as it is (and last is its answer),
\* a request taken up joins inflight, and Finish(r) is the step that answers
\* the request r in flight.
AnsweredNow == inflight' = inflight
TakenUp(r) == inflight' = inflight (+) SetToBag({r})

\* the transactions of the user and the category of the budget row b
Matching(b) == {r \in transactions : r.user_id = b.user_id /\ r.category = b.category}
DetachedCopy(r, r2, id) ==
    /\ r2.id = r.id
    /\ r2 = [r EXCEPT !.user_id = r2.user_id]
    /\ r2.user_id = (IF r.user_id = Some(id) THEN None ELSE r.user_id)

\* C1: for every existing budget, check_budget_exceeded answers 200 with true
\* exactly when the amounts of the transactions of the budget's user and
\* category sum to more than the budget's amount; with no such transaction the
\* sum is zero and the answer is false.  The budget is the row the request
\* read, the transactions those in the table when it sums them.
C1_ExceededIffSpentAboveAmount ==
    [][\A r \in InFlight : (r.op = "check_budget_exceeded" /\ Finish(r)) =>
          LET b == r.loaded[1] IN
          /\ last'.status = 200
          /\ last'.body = (SumAmounts(Matching(b)) > b.amount)]_vars

\* C2: check_budget_exceeded and get_budget_utilization on a budget id that is
\* not in the store answer 404 and leave the store unchanged.
C2_AbsentBudgetNotFound ==
    [][(/\ AnsweredNow
        /\ last'.op \in {"check_budget_exceeded", "get_budget_utilization"}
        /\ last'.arg \notin Ids(budgets))
       => (last'.status = 404 /\ UNCHANGED store)]_vars

\* C3: get_total_spent answers the sum of the amounts of the user's
\* transactions, the number zero when the user has none.
C3_TotalSpentIsANumber ==
    last.op = "get_total_spent" =>
        /\ last.status = 200
        /\ last.body = Some(SumAmounts({r \in transactions : r.user_id = Some(last.arg)}))

C5_DeletedUserNotFound ==
    [][/\ \A id \in gone :
             /\ (/\ AnsweredNow
                 /\ \/ last'.op \in {"get_user", "delete_user"} /\ last'.arg = id
                    \/ last'.op = "update_user" /\ last'.arg.id = id)
                => last'.status = 404
             /\ \A r \in BagToSet(inflight') :
                   (TakenUp(r) /\ r.op \in {"update_user", "delete_user"}) => r.id # id
       /\ \A r \in InFlight : (r.op = "delete_user" /\ Finish(r)) =>
             (last'.status = 200 /\ r.id \notin Ids(users'))
       /\ (AnsweredNow /\ last'.op = "delete_user") =>
             (last'.arg \notin Ids(users) /\ last'.status = 404 /\ UNCHANGED store)
       /\ \A r \in BagToSet(inflight') : (TakenUp(r) /\ r.op = "delete_user") =>
             (r.id \in Ids(users) /\ UNCHANGED store)]_vars

\* C5 witness: get_user answered 404 for an id deleted since the last insert,
\* an id the users table held when the run began or was given by create_user.
C5_Witness ==
    /\ last.op = "get_user"
    /\ last.status = 404
    /\ last.arg \in gone
    /\ last.arg \in issued

\* C6 as claimed: a delete_user that answers 200 removes the user's row and
\* leaves every transaction and budget as it was, user reference included.
C6_ChildrenKeepTheirUser ==
    [][\A r \in InFlight : (r.op = "delete_user" /\ Finish(r)) =>
          /\ users' = {u \in users : u.id # r.id}
          /\ transactions' = transactions
          /\ budgets' = budgets]_vars

\* C6 amended: a delete_user that answers 200 removes the user's row; every
\* transaction and budget is still there with its fields unchanged, except that
\* the user reference of a row of the deleted user is NULL afterwards.
C6_ChildrenAreDetached ==
    [][\A r \in InFlight : (r.op = "delete_user" /\ Finish(r)) =>
          /\ last'.status = 200
          /\ users' = {u \in users : u.id # r.id}
          /\ Ids(transactions') = Ids(transactions)
          /\ \A t \in transactions : \E t2 \in transactions' : DetachedCopy(t, t2, r.id)
          /\ Ids(budgets') = Ids(budgets)
          /\ \A b \in budgets : \E b2 \in budgets' : DetachedCopy(b, b2, r.id)]_vars

\* C6 witness: a user that owned rows was deleted (its id was issued, no row
\* refers to it any more) and a transaction and a budget have a NULL user.
C6_Witness ==
    /\ last.op = "delete_user"
    /\ last.status = 200
    /\ last.arg \in issued
    /\ \E r \in transactions : r.user_id = None
    /\ \E b \in budgets : b.user_id = None
    /\ \A r \in transactions \cup budgets : r.user_id # Some(last.arg)

\* C7: get_monthly_spending_report answers the sum over the user's transactions
\* dated in the calendar month of now: from the first instant of the month to,
\* but not including, the first instant of the next month.
C7_MonthlyIsTheCalendarMonth ==
    last.op = "get_monthly_spending_report" =>
        last.body = FuncSum({r \in transactions :
                                /\ r.user_id = Some(last.arg.user_id)
                                /\ r.date.y = last.arg.now.y
                                /\ r.date.m = last.arg.now.m})

\* C8: with at least one transaction get_highest_spending_category answers a
\* category that has transactions, with the sum of their amounts, and no
\* category sums to more; with no transaction it fails.
C8_HighestIsAMaximalCategory ==
    last.op = "get_highest_spending_category" =>
        IF transactions = {} THEN last.status = 500
        ELSE /\ last.status = 200
             /\ \E r \in transactions : r.category = last.body.category
             /\ last.body.total_spent =
                   SumAmounts({r \in transactions : r.category = last.body.category})
             /\ \A c \in Categories :
                   SumAmounts({r \in transactions : r.category = c}) <= last.body.total_spent

\* C8 witness: the answer's category won by the sum of two transactions over a
\* category that holds a transaction at least as large as either of them.
C8_Witness ==
    /\ last.op = "get_highest_spending_category"
    /\ last.status = 200
    /\ \E r1, r2, r3 \in transactions :
          /\ r1.id # r2.id
          /\ r1.category = last.body.category
          /\ r2.category = last.body.category
          /\ r3.category # last.body.category
          /\ r3.amount >= r1.amount
          /\ r3.amount >= r2.amount

\* C9: for an existing budget of amount 0 get_budget_utilization answers 0
\* whatever was spent, also when no transaction matches; for an amount above 0
\* with matching transactions it answers spent / amount.  The budget is the row
\* the request read, the transactions those in the table when it sums them.
C9_UtilizationOfZeroBudgetIsZero ==
    [][\A r \in InFlight : (r.op = "get_budget_utilization" /\ Finish(r)) =>
          LET b == r.loaded[1] IN
          /\ last'.arg = r.id
          /\ b.amount = 0 => (last'.status = 200 /\ last'.body = Zero)
          /\ (b.amount > 0 /\ Matching(b) # {}) =>
                /\ last'.status = 200
                /\ last'.body.den > 0
                /\ last'.body.num * b.amount = last'.body.den * SumAmounts(Matching(b))]_vars

\* C9 witness: utilization 0 for a budget of amount 0 that no transaction
\* matches, in a table that holds transactions.
C9_Witness ==
    /\ last.op = "get_budget_utilization"
    /\ last.status = 200
    /\ last.body = Zero
    /\ transactions # {}
    /\ \E b \in budgets : b.id = last.arg /\ b.amount = 0 /\ Matching(b) = {}

\* C10: the id of a newly created user differs from the id of every earlier
\* user, deleted ones included.
C10_UserIdsNeverReused ==
    [][(Ids(users') \ Ids(users)) \cap issued = {}]_vars
====
